---- MODULE Spec2Model ----
(***************************************************************************)
(* The scan session of natefit: the ScanFlow step machine                  *)
(* (components/scan/ScanFlow.tsx), the calibration form (CalibrationStep), *)
(* the capture step (CameraCapture with useCamera / usePoseDetection) and  *)
(* the remote scan processor hook (useScanProcessor).                      *)
(*                                                                         *)
(* One action is one event-loop task: an event handler, a timer or promise *)
(* callback, together with the React re-render and the effects it causes.  *)
(* Asynchronous work (getUserMedia, the pose model load, canvas.toBlob,    *)
(* fetch) is a pending item that a later action resolves, in any order.    *)
(*                                                                         *)
(* Numbers typed into the calibration form are kept in tenths (100 cm is   *)
(* 1000); a text field is <<>> (empty) or <<n>>.                           *)
(***************************************************************************)
EXTENDS Integers, Sequences, FiniteSets, TLC

\* null, of a string-valued field and of an object-valued one.
NULL == "null"

None == [null |-> TRUE]

\* ---------------------------------------------------------------- bounds
\* CameraCapture instances mounted in one session.
MaxInstances == 3
\* handleCapture calls awaiting canvas.toBlob at one time.
MaxPending == 2
\* process() calls awaiting the server at one time.
MaxCalls == 1
\* Frames are fed to a capture step until its streak reaches this.
MaxStreak == 46

\* ------------------------------------------------------ program constants
STABLE_FRAMES_REQUIRED == 45
STABILITY_THRESHOLD_PX == 5

Steps ==
    {"intro", "calibration", "front_capture", "front_review",
     "side_capture", "side_review", "processing", "results"}

CaptureSteps == {"front_capture", "side_capture"}

Tenths(n) == n * 10

Min(a, b) == IF a <= b THEN a ELSE b

Max(a, b) == IF a >= b THEN a ELSE b

Abs(a) == IF a >= 0 THEN a ELSE 0 - a

\* Multisets of in-flight asynchronous calls, as functions to counts.
BagSize(b) ==
    Cardinality({x \in (DOMAIN b) \X (1..(MaxPending + MaxCalls)) :
                    x[2] <= b[x[1]]})

BagAdd(b, e) == [b EXCEPT ![e] = @ + 1]

BagRemove(b, e) == [b EXCEPT ![e] = @ - 1]

VARIABLES
    \* ScanFlow: useState<ScanFlowState>
    step, calibration, frontImage, frontKeypoints, sideImage, sideKeypoints,
    result, error,
    \* useScanProcessor: its state and the process() calls in flight
    isProcessing, progress, processingError, calls,
    \* CalibrationStep (mounted while step = calibration)
    heightCm, weightKg, age, sex, errors,
    \* CameraCapture (mounted while step is a capture step)
    inst, camPending, isReady, cameraError, poseState, poseError,
    keypoints, prevKeypointsRef, stableFrames, isValid, capturedRef,
    \* handleCapture calls awaiting their blob, of any instance
    pending,
    \* history: how often each instance's onCapture prop was invoked
    onCaptureCalls,
    \* POST /api/scan/process: the handler's position, its abort timer, the
    \* response it returned, and (history) the requests it sent to the
    \* backend, how its backend fetch ended and whether SCAN_TIMEOUT_MS
    \* have passed since the timer was set
    routePhase, routeTimer, routeResponse, backendRequests, backendOutcome,
    deadlinePassed,
    \* a call of a function of lib/scan or of the in-browser process():
    \* its arguments and what it returned
    args, ret,
    \* usePoseDetection of one CameraCapture: landmarkerRef is set, the
    \* startDetection() calls awaiting loadModel(), the animation frames
    \* requested and not yet run or cancelled, whether rafRef names one of
    \* them, isDetecting, and where the instance stands: "none" (not yet
    \* mounted), "idle" (mounted, detection not started or stopped by the
    \* effect cleanup), "started" (startDetection() called), "stopped"
    \* (stopDetection() called by handleCapture), "unmounted"
    landmarkerRef, loads, frames, rafLive, isDetecting, hook

flowVars ==
    <<step, calibration, frontImage, frontKeypoints, sideImage, sideKeypoints,
      result, error>>

procVars == <<isProcessing, progress, processingError, calls>>

formVars == <<heightCm, weightKg, age, sex, errors>>

camVars ==
    <<inst, camPending, isReady, cameraError, poseState, poseError,
      keypoints, prevKeypointsRef, stableFrames, isValid, capturedRef>>

routeVars ==
    <<routePhase, routeTimer, routeResponse, backendRequests, backendOutcome,
      deadlinePassed>>

libVars == <<args, ret>>

poseVars ==
    <<landmarkerRef, loads, frames, rafLive, isDetecting, hook>>

vars ==
    <<flowVars, procVars, formVars, camVars, pending, onCaptureCalls,
      routeVars, libVars, poseVars>>

\* ------------------------------------------------------------ input sets
\* What the user types, in tenths: nothing, and values inside and outside
\* the limits of validate(); 13.9 parses to the age 13, 12.9 to 12.
HeightInputs == {<<>>, <<999>>, <<1000>>, <<2501>>}
WeightInputs == {<<>>, <<3000>>, <<3001>>}
AgeInputs == {<<>>, <<129>>, <<139>>}
Sexes == {"male", "female"}

\* A detector result: the pose reduced to what the capture step reads of it:
\* whether the mode's validator accepts it, whether its landmarks are
\* visible (>= MIN_VISIBILITY) and where they are, in pixels.
Frames ==
    {[valid |-> TRUE, visible |-> TRUE, pos |-> 0],
     [valid |-> TRUE, visible |-> TRUE, pos |-> 1],
     [valid |-> FALSE, visible |-> TRUE, pos |-> 0],
     [valid |-> FALSE, visible |-> FALSE, pos |-> 0]}

\* What a failed request leaves in the processor's error.
ServerErrors ==
    {"Scan processing timed out. Please try again."}

\* -------------------------------------------------------- CalibrationStep
\* parseFloat of a number field: NaN for the empty string.
parseFloat(s) ==
    IF Len(s) = 0 THEN [nan |-> TRUE, v |-> 0] ELSE [nan |-> FALSE, v |-> s[1]]

\* parseInt: the integer part.
parseInt(s) ==
    IF Len(s) = 0 THEN [nan |-> TRUE, v |-> 0]
    ELSE [nan |-> FALSE, v |-> Tenths(s[1] \div 10)]

\* !x of a number: NaN and 0 are falsy.
Falsy(x) == x.nan \/ x.v = 0

\* Mutant: validate() without the upper limit of the height.
validate_NoHeightLimit ==
    LET h == parseFloat(heightCm)
        w == parseFloat(weightKg)
        a == parseInt(age)
    IN  (IF Falsy(h) \/ h.v < Tenths(100) THEN {"height"} ELSE {})
        \cup (IF Falsy(w) \/ w.v < Tenths(30) \/ w.v > Tenths(300)
            THEN {"weight"} ELSE {})
        \cup (IF Falsy(a) \/ a.v < Tenths(13) \/ a.v > Tenths(120)
            THEN {"age"} ELSE {})

\* validate(): the newErrors it computes.
validate ==
    LET h == parseFloat(heightCm)
        w == parseFloat(weightKg)
        a == parseInt(age)
    IN  (IF Falsy(h) \/ h.v < Tenths(100) \/ h.v > Tenths(250)
            THEN {"height"} ELSE {})
        \cup (IF Falsy(w) \/ w.v < Tenths(30) \/ w.v > Tenths(300)
            THEN {"weight"} ELSE {})
        \cup (IF Falsy(a) \/ a.v < Tenths(13) \/ a.v > Tenths(120)
            THEN {"age"} ELSE {})

\* The data handleSubmit passes to onComplete.
SubmittedData ==
    [height_cm |-> parseFloat(heightCm).v,
     weight_kg |-> parseFloat(weightKg).v,
     age |-> parseInt(age).v,
     sex |-> sex]

FormMount ==
    /\ heightCm' = <<>>
    /\ weightKg' = <<>>
    /\ age' = <<>>
    /\ sex' = "male"
    /\ errors' = {}

\* ---------------------------------------------------------- CameraCapture
Mounted == step \in CaptureSteps

mode == IF step = "front_capture" THEN "front" ELSE "side"

errorMessage == IF cameraError # NULL THEN cameraError ELSE poseError

\* The state of a CameraCapture instance after its first render and mount
\* effects (startCamera() called), and of no instance at all.
CameraState(starting) ==
    /\ camPending' = starting
    /\ isReady' = FALSE
    /\ cameraError' = NULL
    /\ poseState' = "idle"
    /\ poseError' = NULL
    /\ keypoints' = None
    /\ prevKeypointsRef' = None
    /\ stableFrames' = 0
    /\ isValid' = FALSE
    /\ capturedRef' = FALSE

CameraMount == inst' = inst + 1 /\ CameraState(TRUE)

CameraUnmount == inst' = inst /\ CameraState(FALSE)

\* The children ScanFlow renders once its step is s: a step change unmounts
\* the old child and mounts the new one with fresh state.
Render(s) ==
    IF s = step
    THEN UNCHANGED <<formVars, camVars>>
    ELSE /\ FormMount
         /\ IF s \in CaptureSteps THEN CameraMount ELSE CameraUnmount

CanMount == inst < MaxInstances

\* calculateStability, in percent, of two detector results.
calculateStability(current, previous) ==
    IF ~(current.visible /\ previous.visible) THEN 0
    ELSE Max(0, 100 - (100 * Abs(current.pos - previous.pos))
                        \div STABILITY_THRESHOLD_PX)

\* The streak after the validate-pose effect ran on frame f.
NextStableFrames(f) ==
    IF prevKeypointsRef # None /\ f.valid
    THEN IF calculateStability(f, prevKeypointsRef) > 80
         THEN stableFrames + 1
         ELSE 0
    ELSE stableFrames

\* handleCapture up to its await: captureFrame() and captureBlob() give
\* null unless the camera is ready.
handleCapture ==
    pending' = IF isReady
               THEN BagAdd(pending, [inst |-> inst, mode |-> mode])
               ELSE pending

HasRoom == BagSize(pending) < MaxPending

\* ---------------------------------------------------------------- ScanFlow
setStep(s) ==
    /\ step' = s
    /\ Render(s)

handleCalibration_StepOnly(data) ==
    /\ calibration' = calibration
    /\ step' = "front_capture"

handleCalibration(data) ==
    /\ calibration' = data
    /\ step' = "front_capture"

handleFrontCapture(blob, kp) ==
    /\ frontImage' = blob
    /\ frontKeypoints' = kp
    /\ step' = "front_review"
    /\ UNCHANGED <<sideImage, sideKeypoints>>

\* Mutant: the side capture submits the scan at once.
handleSideCapture_AutoSubmit(blob, kp) ==
    /\ sideImage' = blob
    /\ sideKeypoints' = kp
    /\ step' = "processing"
    /\ UNCHANGED <<frontImage, frontKeypoints>>

handleSideCapture(blob, kp) ==
    /\ sideImage' = blob
    /\ sideKeypoints' = kp
    /\ step' = "side_review"
    /\ UNCHANGED <<frontImage, frontKeypoints>>

progressSteps == <<20, 40, 60, 75, 85, 90>>

\* The handleCapture calls and the process() calls that can be in flight.
PendingCaptures == [inst : 1..MaxInstances, mode : {"front", "side"}]

Calls == [stepIndex : 0..Len(progressSteps), phase : {"fetch", "json"}]

\* usePoseDetection before any CameraCapture is mounted.
PoseIdle ==
    /\ landmarkerRef = FALSE
    /\ loads = 0
    /\ frames = 0
    /\ rafLive = FALSE
    /\ isDetecting = FALSE
    /\ hook = "none"

\* The application as constructed: ScanFlow in intro, nothing mounted, no
\* request.
AppInit ==
    /\ step = "intro"
    /\ PoseIdle
    /\ calibration = None
    /\ frontImage = NULL
    /\ frontKeypoints = NULL
    /\ sideImage = NULL
    /\ sideKeypoints = NULL
    /\ result = NULL
    /\ error = NULL
    /\ isProcessing = FALSE
    /\ progress = 0
    /\ processingError = NULL
    /\ calls = [c \in Calls |-> 0]
    /\ heightCm = <<>>
    /\ weightKg = <<>>
    /\ age = <<>>
    /\ sex = "male"
    /\ errors = {}
    /\ inst = 0
    /\ camPending = FALSE
    /\ isReady = FALSE
    /\ cameraError = NULL
    /\ poseState = "idle"
    /\ poseError = NULL
    /\ keypoints = None
    /\ prevKeypointsRef = None
    /\ stableFrames = 0
    /\ isValid = FALSE
    /\ capturedRef = FALSE
    /\ pending = [p \in PendingCaptures |-> 0]
    /\ onCaptureCalls = [i \in 1..MaxInstances |-> 0]
    /\ routePhase = "idle"
    /\ routeTimer = "unset"
    /\ routeResponse = None
    /\ backendRequests = 0
    /\ backendOutcome = "none"
    /\ deadlinePassed = FALSE

Init == AppInit /\ args = None /\ ret = None
\* ------------------------------------------------------- ScanFlow buttons
\* intro: Start Scan.
StartScan ==
    /\ step = "intro"
    /\ setStep("calibration")
    /\ UNCHANGED <<calibration, frontImage, frontKeypoints, sideImage,
                   sideKeypoints, result, error, procVars, pending,
                   onCaptureCalls, routeVars, libVars, poseVars>>

\* calibration: Back.
CalibrationBack ==
    /\ step = "calibration"
    /\ setStep("intro")
    /\ UNCHANGED <<calibration, frontImage, frontKeypoints, sideImage,
                   sideKeypoints, result, error, procVars, pending,
                   onCaptureCalls, routeVars, libVars, poseVars>>

\* Mutant: Back of the front capture step discards the calibration.
FrontCaptureBack_ClearsCalibration ==
    /\ step = "front_capture"
    /\ errorMessage = NULL
    /\ calibration' = None
    /\ setStep("calibration")
    /\ UNCHANGED <<frontImage, frontKeypoints, sideImage, sideKeypoints,
                   result, error, procVars, pending, onCaptureCalls,
                   routeVars, libVars, poseVars>>

\* front_capture: Back.
FrontCaptureBack ==
    /\ step = "front_capture"
    /\ errorMessage = NULL
    /\ setStep("calibration")
    /\ UNCHANGED <<calibration, frontImage, frontKeypoints, sideImage,
                   sideKeypoints, result, error, procVars, pending,
                   onCaptureCalls, routeVars, libVars, poseVars>>

\* Mutant: Retake of the front review discards the front photo.
FrontRetake_ClearsImage ==
    /\ step = "front_review"
    /\ CanMount
    /\ frontImage' = NULL
    /\ frontKeypoints' = NULL
    /\ setStep("front_capture")
    /\ UNCHANGED <<calibration, sideImage, sideKeypoints, result, error,
                   procVars, pending, onCaptureCalls, routeVars, libVars, poseVars>>

\* front_review: Retake.
FrontRetake ==
    /\ step = "front_review"
    /\ CanMount
    /\ setStep("front_capture")
    /\ UNCHANGED <<calibration, frontImage, frontKeypoints, sideImage,
                   sideKeypoints, result, error, procVars, pending,
                   onCaptureCalls, routeVars, libVars, poseVars>>

\* front_review: Take Side Photo.
TakeSidePhoto ==
    /\ step = "front_review"
    /\ CanMount
    /\ setStep("side_capture")
    /\ UNCHANGED <<calibration, frontImage, frontKeypoints, sideImage,
                   sideKeypoints, result, error, procVars, pending,
                   onCaptureCalls, routeVars, libVars, poseVars>>

\* Mutant: Back of the side capture step reopens the front capture step.
SideCaptureBack_ToFrontCapture ==
    /\ step = "side_capture"
    /\ errorMessage = NULL
    /\ CanMount
    /\ setStep("front_capture")
    /\ UNCHANGED <<calibration, frontImage, frontKeypoints, sideImage,
                   sideKeypoints, result, error, procVars, pending,
                   onCaptureCalls, routeVars, libVars, poseVars>>

\* side_capture: Back.
SideCaptureBack ==
    /\ step = "side_capture"
    /\ errorMessage = NULL
    /\ setStep("front_review")
    /\ UNCHANGED <<calibration, frontImage, frontKeypoints, sideImage,
                   sideKeypoints, result, error, procVars, pending,
                   onCaptureCalls, routeVars, libVars, poseVars>>

\* side_review: Retake.
SideRetake ==
    /\ step = "side_review"
    /\ CanMount
    /\ setStep("side_capture")
    /\ UNCHANGED <<calibration, frontImage, frontKeypoints, sideImage,
                   sideKeypoints, result, error, procVars, pending,
                   onCaptureCalls, routeVars, libVars, poseVars>>

\* -------------------------------------------------- CalibrationStep events
SetHeightCm(v) ==
    /\ step = "calibration"
    /\ heightCm' = v
    /\ UNCHANGED <<flowVars, procVars, weightKg, age, sex, errors, camVars,
                   pending, onCaptureCalls, routeVars, libVars, poseVars>>

SetWeightKg(v) ==
    /\ step = "calibration"
    /\ weightKg' = v
    /\ UNCHANGED <<flowVars, procVars, heightCm, age, sex, errors, camVars,
                   pending, onCaptureCalls, routeVars, libVars, poseVars>>

SetAge(v) ==
    /\ step = "calibration"
    /\ age' = v
    /\ UNCHANGED <<flowVars, procVars, heightCm, weightKg, sex, errors,
                   camVars, pending, onCaptureCalls, routeVars, libVars, poseVars>>

SetSex(v) ==
    /\ step = "calibration"
    /\ sex' = v
    /\ UNCHANGED <<flowVars, procVars, heightCm, weightKg, age, errors,
                   camVars, pending, onCaptureCalls, routeVars, libVars, poseVars>>

\* Continue: handleSubmit. validate() stores its errors; with none,
\* onComplete = handleCalibration runs and the capture step is mounted.
handleSubmit ==
    /\ step = "calibration"
    /\ IF validate # {}
       THEN /\ errors' = validate
            /\ UNCHANGED <<flowVars, heightCm, weightKg, age, sex, camVars>>
       ELSE /\ CanMount
            /\ handleCalibration(SubmittedData)
            /\ Render("front_capture")
            /\ UNCHANGED <<frontImage, frontKeypoints, sideImage,
                           sideKeypoints, result, error>>
    /\ UNCHANGED <<procVars, pending, onCaptureCalls, routeVars, libVars, poseVars>>

\* ---------------------------------------------------- CameraCapture events
\* startCamera(): getUserMedia and play() succeeded; the isReady effect
\* calls startDetection, which awaits loadModel().
CameraStarted ==
    /\ Mounted
    /\ camPending
    /\ camPending' = FALSE
    /\ isReady' = TRUE
    /\ poseState' = IF poseState = "idle" THEN "loading" ELSE poseState
    /\ UNCHANGED <<flowVars, procVars, formVars, inst, cameraError, poseError,
                   keypoints, prevKeypointsRef, stableFrames, isValid,
                   capturedRef, pending, onCaptureCalls, routeVars, libVars, poseVars>>

\* startCamera(): getUserMedia rejected.
CameraFailed ==
    /\ Mounted
    /\ camPending
    /\ camPending' = FALSE
    /\ cameraError' = "Camera access failed"
    /\ UNCHANGED <<flowVars, procVars, formVars, inst, isReady, poseState,
                   poseError, keypoints, prevKeypointsRef, stableFrames,
                   isValid, capturedRef, pending, onCaptureCalls,
                   routeVars, libVars, poseVars>>

\* The error view's "Try again": startCamera().
CameraRetry ==
    /\ Mounted
    /\ errorMessage # NULL
    /\ ~camPending
    /\ camPending' = TRUE
    /\ cameraError' = NULL
    /\ UNCHANGED <<flowVars, procVars, formVars, inst, isReady, poseState,
                   poseError, keypoints, prevKeypointsRef, stableFrames,
                   isValid, capturedRef, pending, onCaptureCalls,
                   routeVars, libVars, poseVars>>

\* startDetection(): loadModel() returned with the landmarker; the
\* detection loop is scheduled.
PoseModelLoaded ==
    /\ Mounted
    /\ poseState = "loading"
    /\ poseState' = "detecting"
    /\ UNCHANGED <<flowVars, procVars, formVars, inst, camPending, isReady,
                   cameraError, poseError, keypoints, prevKeypointsRef,
                   stableFrames, isValid, capturedRef, pending,
                   onCaptureCalls, routeVars, libVars, poseVars>>

\* loadModel() failed: the loop runs without a landmarker and detects
\* nothing.
PoseModelFailed ==
    /\ Mounted
    /\ poseState = "loading"
    /\ poseState' = "failed"
    /\ poseError' = "Failed to load pose detection model"
    /\ UNCHANGED <<flowVars, procVars, formVars, inst, camPending, isReady,
                   cameraError, keypoints, prevKeypointsRef, stableFrames,
                   isValid, capturedRef, pending, onCaptureCalls,
                   routeVars, libVars, poseVars>>

\* The auto-capture effect fires on the render with streak n.
AutoCaptureDue(n) ==
    /\ n >= STABLE_FRAMES_REQUIRED
    /\ ~capturedRef

\* detect(): one animation frame with detector result f (None: no pose),
\* then the validate-pose effect and the auto-capture effect.
DetectFrame(f) ==
    /\ Mounted
    /\ poseState = "detecting"
    /\ stableFrames < MaxStreak
    /\ keypoints' = f
    /\ IF f = None
       THEN UNCHANGED <<prevKeypointsRef, stableFrames, isValid, capturedRef,
                        pending>>
       ELSE /\ isValid' = f.valid
            /\ stableFrames' = NextStableFrames(f)
            /\ prevKeypointsRef' = f
            /\ IF AutoCaptureDue(stableFrames) \/ AutoCaptureDue(stableFrames')
               THEN /\ HasRoom
                    /\ capturedRef' = TRUE
                    /\ handleCapture
               ELSE UNCHANGED <<capturedRef, pending>>
    /\ UNCHANGED <<flowVars, procVars, formVars, inst, camPending, isReady,
                   cameraError, poseState, poseError, onCaptureCalls,
                   routeVars, libVars, poseVars>>

\* The manual capture button (enabled while keypoints are shown).
ManualCapture ==
    /\ Mounted
    /\ errorMessage = NULL
    /\ keypoints # None
    /\ HasRoom
    /\ handleCapture
    /\ UNCHANGED <<flowVars, procVars, formVars, camVars, onCaptureCalls,
                   routeVars, libVars, poseVars>>

\* handleCapture after its await, of the call p: canvas.toBlob gave no
\* blob and nothing happens.
CaptureDropped(p) ==
    /\ pending[p] > 0
    /\ pending' = BagRemove(pending, p)
    /\ UNCHANGED <<flowVars, procVars, formVars, camVars, onCaptureCalls,
                   routeVars, libVars, poseVars>>

\* handleCapture after its await, of the call p: stopDetection(),
\* stopCamera() and onCapture(blob, keypoints, imageData) of p's instance,
\* mounted or not.
CaptureDelivered(p) ==
    /\ pending[p] > 0
    /\ pending' = BagRemove(pending, p)
    /\ onCaptureCalls' = [onCaptureCalls EXCEPT ![p.inst] = @ + 1]
    /\ IF p.mode = "front"
       THEN handleFrontCapture("blob", "keypoints")
       ELSE handleSideCapture("blob", "keypoints")
    /\ Render(step')
    /\ UNCHANGED <<calibration, result, error, procVars, routeVars, libVars, poseVars>>

\* ------------------------------------------------------- useScanProcessor
\* process() up to its fetch: the state resets and the progress timer.
process ==
    /\ isProcessing' = TRUE
    /\ progress' = 0
    /\ processingError' = NULL
    /\ calls' = BagAdd(calls, [stepIndex |-> 0, phase |-> "fetch"])

\* side_review: Process Scan = handleProcess up to its await, with fewer
\* than n calls of process() in flight.
handleProcessUpTo(n) ==
    /\ step = "side_review"
    /\ BagSize(calls) < n
    /\ setStep("processing")
    /\ IF frontImage = NULL \/ sideImage = NULL \/ calibration = None
       THEN /\ error' = "Missing scan data"
            /\ UNCHANGED procVars
       ELSE /\ process
            /\ UNCHANGED error
    /\ UNCHANGED <<calibration, frontImage, frontKeypoints, sideImage,
                   sideKeypoints, result, pending, onCaptureCalls,
                   routeVars, libVars, poseVars>>

handleProcess == handleProcessUpTo(MaxCalls)

Replace(c, d) == BagAdd(BagRemove(calls, c), d)

\* The 1200 ms interval of the call c.
ProgressTick(c) ==
    /\ calls[c] > 0
    /\ c.phase = "fetch"
    /\ c.stepIndex < Len(progressSteps)
    /\ progress' = progressSteps[c.stepIndex + 1]
    /\ calls' = Replace(c, [c EXCEPT !.stepIndex = @ + 1])
    /\ UNCHANGED <<flowVars, isProcessing, processingError, formVars, camVars,
                   pending, onCaptureCalls, routeVars, libVars, poseVars>>

\* fetch resolved with an ok response: clearInterval, setProgress(95),
\* then the await of response.json().
ResponseOk(c) ==
    /\ calls[c] > 0
    /\ c.phase = "fetch"
    /\ progress' = 95
    /\ calls' = Replace(c, [c EXCEPT !.phase = "json"])
    /\ UNCHANGED <<flowVars, isProcessing, processingError, formVars, camVars,
                   pending, onCaptureCalls, routeVars, libVars, poseVars>>

\* The catch branch of the call c with message m; process() returns null
\* and handleProcess does nothing more.
ProcessFailed(c, m) ==
    /\ calls[c] > 0
    /\ calls' = BagRemove(calls, c)
    /\ processingError' = m
    /\ isProcessing' = FALSE
    /\ UNCHANGED <<flowVars, progress, formVars, camVars, pending,
                   onCaptureCalls, routeVars, libVars, poseVars>>

\* fetch resolved with a response that is not ok: the thrown Error carries
\* the body's error text.
ResponseNotOk(c, m) ==
    /\ c.phase = "fetch"
    /\ ProcessFailed(c, m)

\* fetch rejected (no connection to the application server).
FetchRejected(c) ==
    /\ c.phase = "fetch"
    /\ ProcessFailed(c, "Failed to fetch")

\* response.json() of an ok response rejected.
JsonRejected(c) ==
    /\ c.phase = "json"
    /\ ProcessFailed(c, "Unexpected end of JSON input")

\* response.json() resolved: process() returns the result and handleProcess
\* stores it and shows the results.
ProcessSucceeded(c) ==
    /\ calls[c] > 0
    /\ c.phase = "json"
    /\ calls' = BagRemove(calls, c)
    /\ progress' = 100
    /\ isProcessing' = FALSE
    /\ result' = "ScanResult"
    /\ setStep("results")
    /\ UNCHANGED <<calibration, frontImage, frontKeypoints, sideImage,
                   sideKeypoints, error, processingError, pending,
                   onCaptureCalls, routeVars, libVars, poseVars>>

Next ==
    \/ StartScan
    \/ CalibrationBack
    \/ FrontCaptureBack
    \/ FrontRetake
    \/ TakeSidePhoto
    \/ SideCaptureBack
    \/ SideRetake
    \/ \E v \in HeightInputs : SetHeightCm(v)
    \/ \E v \in WeightInputs : SetWeightKg(v)
    \/ \E v \in AgeInputs : SetAge(v)
    \/ \E v \in Sexes : SetSex(v)
    \/ handleSubmit
    \/ CameraStarted
    \/ CameraFailed
    \/ CameraRetry
    \/ PoseModelLoaded
    \/ PoseModelFailed
    \/ \E f \in Frames \cup {None} : DetectFrame(f)
    \/ ManualCapture
    \/ \E p \in PendingCaptures : CaptureDropped(p)
    \/ \E p \in PendingCaptures : CaptureDelivered(p)
    \/ handleProcess
    \/ \E c \in Calls : ProgressTick(c)
    \/ \E c \in Calls : ResponseOk(c)
    \/ \E c \in Calls, m \in ServerErrors : ResponseNotOk(c, m)
    \/ \E c \in Calls : FetchRejected(c)
    \/ \E c \in Calls : JsonRejected(c)
    \/ \E c \in Calls : ProcessSucceeded(c)

Spec == Init /\ [][Next]_vars

\* ------------------------------------------- POST /api/scan/process (route)
TimeoutMessage == "Scan processing timed out. Please try again."

UnavailableMessage == "Scan backend is unavailable. Please try again later."

\* The statuses the backend answers with.
BackendStatuses == {200, 500, 504}

RouteIdle ==
    /\ routePhase = "idle"
    /\ routeTimer = "unset"
    /\ routeResponse = None
    /\ backendRequests = 0
    /\ backendOutcome = "none"
    /\ deadlinePassed = FALSE

clientVars ==
    <<flowVars, procVars, formVars, camVars, pending, onCaptureCalls>>

\* return NextResponse.json(...): the handler ends with this response.
Respond(status, body) ==
    /\ routePhase' = "done"
    /\ routeResponse' = [status |-> status, error |-> body]

\* The request of a process() call reaches the handler, which awaits
\* createClient() and auth.getUser().
RouteReceive ==
    /\ routePhase = "idle"
    /\ \E c \in Calls : calls[c] > 0 /\ c.phase = "fetch"
    /\ routePhase' = "auth"
    /\ UNCHANGED <<routeTimer, routeResponse, backendRequests,
                   backendOutcome, deadlinePassed, clientVars, libVars, poseVars>>

\* Mutant: the auth check lets every request through.
RouteAuth_Lenient(user) ==
    /\ routePhase = "auth"
    /\ routePhase' = "formData"
    /\ UNCHANGED <<routeResponse, routeTimer, backendRequests, backendOutcome,
                   deadlinePassed, clientVars, libVars, poseVars>>

\* The auth check: 401 without a user, else the await of formData().
RouteAuth(user) ==
    /\ routePhase = "auth"
    /\ IF user
       THEN routePhase' = "formData" /\ UNCHANGED routeResponse
       ELSE Respond(401, "Unauthorized")
    /\ UNCHANGED <<routeTimer, backendRequests, backendOutcome,
                   deadlinePassed, clientVars, libVars, poseVars>>

\* The form data process() appended: every field of the request.
RequestComplete ==
    /\ frontImage # NULL /\ sideImage # NULL
    /\ calibration # None

\* The fields check, then the timer is set and the one fetch to the
\* backend is issued.
RouteForwardIf(complete) ==
    /\ routePhase = "formData"
    /\ IF complete
       THEN /\ routePhase' = "fetch"
            /\ routeTimer' = "armed"
            /\ backendRequests' = backendRequests + 1
            /\ UNCHANGED routeResponse
       ELSE /\ Respond(400, "Missing required fields")
            /\ UNCHANGED <<routeTimer, backendRequests>>
    /\ UNCHANGED <<backendOutcome, deadlinePassed, clientVars, libVars, poseVars>>

\* The handler on the request of a process() call.
RouteForward == RouteForwardIf(RequestComplete)

\* The outer catch: createClient(), getUser(), formData() or the backend
\* body's json() threw.
RouteThrows ==
    /\ routePhase \in {"auth", "formData", "json"}
    /\ Respond(500, "Internal server error during scan processing")
    /\ UNCHANGED <<routeTimer, backendRequests, backendOutcome,
                   deadlinePassed, clientVars, libVars, poseVars>>

\* Mutant: the inner catch answers an abort as an unavailable backend.
TimerFires_AsUnavailable ==
    /\ routePhase = "fetch"
    /\ routeTimer = "armed"
    /\ deadlinePassed' = TRUE
    /\ routeTimer' = "cleared"
    /\ backendOutcome' = "aborted"
    /\ Respond(502, UnavailableMessage)
    /\ UNCHANGED <<backendRequests, clientVars, libVars, poseVars>>

\* The timer fires while the fetch is pending: controller.abort(), fetch
\* rejects with an AbortError, the inner catch answers 504.
TimerFires ==
    /\ routePhase = "fetch"
    /\ routeTimer = "armed"
    /\ deadlinePassed' = TRUE
    /\ routeTimer' = "cleared"
    /\ backendOutcome' = "aborted"
    /\ Respond(504, TimeoutMessage)
    /\ UNCHANGED <<backendRequests, clientVars, libVars, poseVars>>

\* Mutant: a rejected fetch to the backend is issued again.
BackendUnreachable_Retry ==
    /\ routePhase = "fetch"
    /\ routeTimer = "armed"
    /\ backendRequests' = backendRequests + 1
    /\ backendOutcome' = "unreachable"
    /\ UNCHANGED <<routePhase, routeTimer, routeResponse, deadlinePassed,
                   clientVars, libVars, poseVars>>

\* fetch rejects for another reason (connection refused, DNS): 502.
BackendUnreachable ==
    /\ routePhase = "fetch"
    /\ routeTimer = "armed"
    /\ routeTimer' = "cleared"
    /\ backendOutcome' = "unreachable"
    /\ Respond(502, UnavailableMessage)
    /\ UNCHANGED <<backendRequests, deadlinePassed, clientVars, libVars, poseVars>>

\* fetch resolves with the backend's response headers; finally clears the
\* timer; the handler awaits the body: text() of an error response, json()
\* of an ok one.
BackendHeaders(status) ==
    /\ routePhase = "fetch"
    /\ routeTimer = "armed"
    /\ routeTimer' = "cleared"
    /\ backendOutcome' = "response"
    /\ routePhase' = IF status = 200 THEN "json" ELSE "text"
    /\ routeResponse' = [status |-> status, error |-> NULL]
    /\ UNCHANGED <<backendRequests, deadlinePassed, clientVars, libVars, poseVars>>

\* SCAN_TIMEOUT_MS have passed since the timer was set, the timer being
\* cleared by then.
DeadlinePasses ==
    /\ routeTimer = "cleared"
    /\ ~deadlinePassed
    /\ deadlinePassed' = TRUE
    /\ UNCHANGED <<routePhase, routeTimer, routeResponse, backendRequests,
                   backendOutcome, clientVars, libVars, poseVars>>

\* The error body arrived (or text() failed: 'Unknown error'): the
\* backend's status is passed on.
BackendErrorBody ==
    /\ routePhase = "text"
    /\ Respond(routeResponse.status, "Scan processing failed: body")
    /\ UNCHANGED <<routeTimer, backendRequests, backendOutcome,
                   deadlinePassed, clientVars, libVars, poseVars>>

\* The result body arrived and parsed.
BackendBody ==
    /\ routePhase = "json"
    /\ Respond(200, NULL)
    /\ UNCHANGED <<routeTimer, backendRequests, backendOutcome,
                   deadlinePassed, clientVars, libVars, poseVars>>

\* process() receives the handler's response.
RouteResponseOk(c) ==
    /\ routePhase = "done"
    /\ routeResponse.status = 200
    /\ ResponseOk(c)

RouteResponseNotOk(c) ==
    /\ routePhase = "done"
    /\ routeResponse.status # 200
    /\ ResponseNotOk(c, routeResponse.error)

\* A session in side_review with both captures taken, and no request yet.
RouteInit ==
    /\ step = "side_review"
    /\ calibration \in
         [height_cm : {Tenths(100), Tenths(250)}, weight_kg : {Tenths(70)},
          age : {Tenths(30)}, sex : Sexes]
    /\ frontImage = "blob"
    /\ frontKeypoints = "keypoints"
    /\ sideImage = "blob"
    /\ sideKeypoints = "keypoints"
    /\ result = NULL
    /\ error = NULL
    /\ isProcessing = FALSE
    /\ progress = 0
    /\ processingError = NULL
    /\ calls = [c \in Calls |-> 0]
    /\ heightCm = <<>>
    /\ weightKg = <<>>
    /\ age = <<>>
    /\ sex = "male"
    /\ errors = {}
    /\ inst = 2
    /\ camPending = FALSE
    /\ isReady = FALSE
    /\ cameraError = NULL
    /\ poseState = "idle"
    /\ poseError = NULL
    /\ keypoints = None
    /\ prevKeypointsRef = None
    /\ stableFrames = 0
    /\ isValid = FALSE
    /\ capturedRef = FALSE
    /\ pending = [p \in PendingCaptures |-> 0]
    /\ onCaptureCalls = [i \in 1..MaxInstances |-> IF i <= 2 THEN 1 ELSE 0]
    /\ RouteIdle
    /\ PoseIdle
    /\ args = None
    /\ ret = None

RouteNext ==
    \/ handleProcess
    \/ \E c \in Calls : ProgressTick(c)
    \/ RouteReceive
    \/ \E user \in BOOLEAN : RouteAuth(user)
    \/ RouteForward
    \/ RouteThrows
    \/ TimerFires
    \/ BackendUnreachable
    \/ \E status \in BackendStatuses : BackendHeaders(status)
    \/ DeadlinePasses
    \/ BackendErrorBody
    \/ BackendBody
    \/ \E c \in Calls : RouteResponseOk(c)
    \/ \E c \in Calls : RouteResponseNotOk(c)
    \/ \E c \in Calls : ProcessSucceeded(c)

RouteSpec == RouteInit /\ [][RouteNext]_vars

\* ------------------------------------------------------------------ claims
DisplayedError == IF processingError # NULL THEN processingError ELSE error

FailedProcessing == step = "processing" /\ DisplayedError # NULL

CaptureArrived == onCaptureCalls' # onCaptureCalls

\* A step in which a process() call begins: one more call at its start.
ProcessStarted ==
    calls'[[stepIndex |-> 0, phase |-> "fetch"]]
        > calls[[stepIndex |-> 0, phase |-> "fetch"]]

\* A step in which a process() call ends and its result is stored.
ProcessReturnedResult ==
    /\ calls' # calls
    /\ \E c \in Calls : calls' = BagRemove(calls, c)
    /\ result' # NULL

\* C1: once step = results, no event changes step to another value.
C1_ResultsTerminal == [][step = "results" => step' = "results"]_vars

ListedTransitions ==
    {<<"intro", "calibration">>, <<"calibration", "front_capture">>,
     <<"front_capture", "front_review">>, <<"front_review", "front_capture">>,
     <<"front_review", "side_capture">>, <<"side_capture", "side_review">>,
     <<"side_review", "side_capture">>, <<"side_review", "processing">>,
     <<"processing", "results">>}

BackTransitions ==
    {<<"calibration", "intro">>, <<"front_capture", "calibration">>,
     <<"side_capture", "front_review">>}

C3_ProcessingOnlyFromSideReview ==
    [][/\ (step' = "processing" /\ step # "processing") => step = "side_review"
       /\ ProcessStarted => (step = "side_review" /\ step' = "processing")]_vars

\* C3 witness: the submit happened and its process() call is in flight.
C3_Witness ==
    /\ step = "processing" /\ isProcessing
    /\ calls[[stepIndex |-> 0, phase |-> "fetch"]] = 1

\* C4: from intro the only possible next step is calibration.
C4_IntroOnlyToCalibration ==
    [][step = "intro" => step' \in {"intro", "calibration"}]_vars

InRange(c) ==
    /\ Tenths(100) <= c.height_cm /\ c.height_cm <= Tenths(250)
    /\ Tenths(30) <= c.weight_kg /\ c.weight_kg <= Tenths(300)
    /\ Tenths(13) <= c.age /\ c.age <= Tenths(120)

FormInRange ==
    /\ heightCm # <<>> /\ weightKg # <<>> /\ age # <<>>
    /\ InRange(SubmittedData)

\* C5: calibration -> front_capture happens only with metadata in range;
\* with a field out of range no event stores a calibration or opens the
\* front capture step, a rejected submit leaves step and calibration as
\* they are, and a stored calibration always lies in the ranges.
C5_CalibrationValidated ==
    /\ [](calibration # None => InRange(calibration))
    /\ [][/\ (step = "calibration" /\ step' = "front_capture") => FormInRange
          /\ (step = "calibration" /\ ~FormInRange) =>
                (calibration' = calibration /\ step' # "front_capture")
          /\ (errors' # {} /\ errors' # errors) =>
                (step' = "calibration" /\ step = "calibration"
                 /\ calibration' = calibration)]_vars

\* C5 witness: back in the calibration step with a calibration stored, a
\* submit has just been rejected.
C5_Witness == step = "calibration" /\ calibration # None /\ errors # {}

\* C6: after a failed process() ScanFlow stays in processing with the error
\* shown and no result, from then on.
C6_FailureStaysInProcessing ==
    [][FailedProcessing => (FailedProcessing' /\ result' = NULL)]_vars

\* C7: a failed processing state is not a dead end: some event can still
\* change the state, as any way from there back to a capture step needs.
C7_FailureLeadsBackToCapture ==
    FailedProcessing => ENABLED (Next /\ vars' # vars)

\* C8 as stated: once calibration is non-null nothing changes it.
C8_CalibrationImmutable ==
    [][calibration # None => calibration' = calibration]_vars

\* C8 amended: calibration changes only by a valid submit in the
\* calibration step, which replaces it as a whole by the submitted data
\* and opens the front capture step; nothing else changes it and it never
\* returns to null.
C8_CalibrationChangedOnlyBySubmit ==
    [][calibration' # calibration =>
         /\ step = "calibration" /\ step' = "front_capture"
         /\ calibration' = SubmittedData
         /\ calibration' # None]_vars

\* C8 witness: a second front capture step with nothing captured yet, which
\* only Back to calibration and a second submit reach.
C8_Witness ==
    /\ step = "front_capture" /\ inst = 2 /\ frontImage = NULL
    /\ BagSize(pending) = 0 /\ calibration # None

\* C9: a frame that fails validity, or whose stability against the previous
\* frame is at most 0.8, leaves the streak at zero.
C9_BadFrameResetsStreak ==
    [][(/\ Mounted /\ Mounted'
        /\ keypoints' # keypoints /\ keypoints' # None
        /\ \/ ~keypoints'.valid
           \/ /\ prevKeypointsRef # None
              /\ calculateStability(keypoints', prevKeypointsRef) <= 80)
       => stableFrames' = 0]_vars

\* C10: onCapture is invoked at most once per CameraCapture instance.
C10_OneCapturePerInstance ==
    \A i \in 1..MaxInstances : onCaptureCalls[i] <= 1

\* C11: a consumed auto-capture trigger never ends without its capture:
\* while the instance whose trigger fired is mounted, its capture is still
\* on the way (once delivered, the step has left the capture step).
C11_TriggerDeliversCapture ==
    (Mounted /\ capturedRef)
        => pending[[inst |-> inst, mode |-> mode]] > 0

\* The flow is in processing and its process() call has not returned.
AwaitingPipeline == step = "processing" /\ \E c \in Calls : calls[c] > 0

\* C12: while the flow awaits the pipeline in processing, no capture event
\* is delivered and the step stays processing until the call completes
\* (and then is processing or results).
C12_NoCaptureWhileProcessing ==
    [][AwaitingPipeline =>
          /\ ~CaptureArrived
          /\ step' \in {"processing", "results"}]_vars

\* The handler has returned its response.
RouteDone == routePhase = "done"

\* The process() call of the submit has ended without a result.
CallFailed ==
    /\ step = "processing"
    /\ ~isProcessing
    /\ \A c \in Calls : calls[c] = 0

\* C13: the handler answers 504 with the timed-out message exactly when
\* its backend fetch was aborted by the timer, and 502 with the unavailable
\* message exactly when the fetch failed otherwise; once process() has
\* ended on a failure response, the processing view shows that response's
\* message.
C13_TimeoutAndUnavailableDistinct ==
    /\ RouteDone =>
         /\ backendOutcome = "aborted"
              <=> routeResponse = [status |-> 504, error |-> TimeoutMessage]
         /\ backendOutcome = "aborted" <=> routeResponse.error = TimeoutMessage
         /\ backendOutcome = "unreachable"
              <=> routeResponse = [status |-> 502, error |-> UnavailableMessage]
         /\ backendOutcome = "unreachable"
              <=> routeResponse.error = UnavailableMessage
    /\ (RouteDone /\ CallFailed) => DisplayedError = routeResponse.error

\* C13 witness: a timed-out backend call, shown in the processing view.
C13_Witness ==
    /\ RouteDone /\ CallFailed
    /\ backendOutcome = "aborted"
    /\ routeResponse.status = 504
    /\ DisplayedError = TimeoutMessage

\* C14: no automatic retry: a request to /api/scan/process is issued only
\* by a submit (side_review to processing), one per submit, no event
\* issues another, and the handler sends at most one request to the
\* backend, however the call ends.
C14_NoAutomaticRetry ==
    /\ [](backendRequests <= 1)
    /\ [][/\ ProcessStarted =>
               /\ step = "side_review" /\ step' = "processing"
               /\ BagSize(calls) = 0 /\ BagSize(calls') = 1
          /\ (step = "side_review" /\ step' = "processing") => ProcessStarted
          /\ BagSize(calls') <= BagSize(calls) \/ ProcessStarted]_vars

\* C14 witness: the call ended on an unavailable backend after one request
\* to it.
C14_Witness ==
    /\ RouteDone /\ CallFailed
    /\ backendOutcome = "unreachable"
    /\ backendRequests = 1
    /\ processingError = UnavailableMessage

\* C15: the handler never waits on the backend, for response headers or
\* body, once SCAN_TIMEOUT_MS have passed since it set the timer.
C15_HardTimeout ==
    deadlinePassed => routePhase \notin {"fetch", "text", "json"}

\* ------------------------------------------- circumference-calculator.ts
\* CORRECTION_FACTORS, in hundredths, of the regions measured here.
CORRECTION_FACTORS ==
    [neck |-> 102, chest |-> 105, waist |-> 103, hips |-> 104]

\* The regions calculateCircumference is called on alone.
CircumferenceRegions == {"neck", "chest"}

\* Widths in hundredths of a cm (pixelsToCm of a pixel width).
WidthsCm == {10, 13, 500, 1000, 1003, 1006, 1500, 2000}

CircumferenceInputs ==
    [region : CircumferenceRegions, frontal_cm : WidthsCm,
     sagittal_cm : WidthsCm]

\* Math.sqrt, to the integer below; hi is an upper bound of the root.
sqrt(x, hi) == CHOOSE r \in 0..hi : r * r <= x /\ (r + 1) * (r + 1) > x

\* ellipseCircumference(a, b) of the semi-axes a = f / 2 and b = s / 2, in
\* ten-thousandths of a cm, for f and s in hundredths. With h =
\* (f - s)^2 / (f + s)^2 the source's formula is
\*   PI / 2 * ((f + s) + sgn(f + s) * 3 (f - s)^2
\*                       / (10 |f + s| + sqrt(4 (f + s)^2 - 3 (f - s)^2)))
\* and PI is taken as 355 / 113.
ellipseCircumference_Difference(f, s) ==
    LET d == (f - s) * (f - s)
        e == (f + s) * (f + s)
        n == Abs(f + s)
        term == (300 * d) \div (10 * n + sqrt(4 * e - 3 * d, 2 * n))
    IN  (355 * (Abs(f - s) * 100 + term)) \div 226

ellipseCircumference(f, s) ==
    LET d == (f - s) * (f - s)
        e == (f + s) * (f + s)
        n == Abs(f + s)
        term == (300 * d) \div (10 * n + sqrt(4 * e - 3 * d, 2 * n))
    IN  (355 * ((f + s) * 100 + (IF f + s < 0 THEN 0 - term ELSE term)))
            \div 226

\* calculateCircumference: circumference_cm in tenths of a cm, the widths
\* in tenths, confidence in hundredths; every Math.round rounds halves up.
calculateCircumference(region, frontal_cm, sagittal_cm) ==
    LET rawCircumference == ellipseCircumference(frontal_cm, sagittal_cm)
        circumference == rawCircumference * CORRECTION_FACTORS[region]
        lo == Min(frontal_cm, sagittal_cm)
        hi == Max(frontal_cm, sagittal_cm)
    IN  [region |-> region,
         circumference_cm |-> (2 * circumference + 100000) \div 200000,
         frontal_width_cm |-> (2 * frontal_cm + 10) \div 20,
         sagittal_depth_cm |-> (2 * sagittal_cm + 10) \div 20,
         confidence |-> IF 120 * lo >= 100 * hi THEN 100
                        ELSE (240 * lo + hi) \div (2 * hi)]

\* ------------------------------- useScanProcessor (in-browser): process()
\* The regions whose widths the pipeline reads here (of MeasurementRegion).
Regions == {"waist", "neck", "hips"}

\* Width in pixels of the body on a row of a mask (right edge minus left
\* edge); NoPixel: the row has no set pixel.
NoPixel == 0 - 1

RowWidths == {NoPixel, 4, 50}

\* A binary mask, as the widths of the rows analyzeSilhouette scans.
Masks == [Regions -> RowWidths]

\* The mask with no set pixel.
EmptyMask == [r \in Regions |-> NoPixel]

\* pixels_per_cm of the calibration (optional in CalibrationData).
Scales == {None, [v |-> 5], [v |-> 0 - 5]}

\* segment(): null (no segmenter, no segmentation, or it threw), else the
\* binary mask.
LocalInputs ==
    [frontMask : Masks \cup {None}, sideMask : Masks \cup {None},
     pixels_per_cm : Scales]

\* scanRow on the row of a region: null for a row without pixels or
\* narrower than 5.
scanRegion(mask, r) == IF mask[r] = NoPixel \/ mask[r] < 5 THEN None
                       ELSE [width_pixels |-> mask[r]]

\* The order in which analyzeSilhouette visits the regions
\* (REGION_Y_RATIOS).
RegionOrder == <<"neck", "waist", "hips">>

\* analyzeSilhouette: a SilhouetteWidth for every region whose row has a
\* width, in the order visited (all landmarks present).
analyzeSilhouette(mask) ==
    LET found == SelectSeq(RegionOrder, LAMBDA r : scanRegion(mask, r) # None)
    IN  [i \in 1..Len(found) |->
            [region |-> found[i],
             width_pixels |-> scanRegion(mask, found[i]).width_pixels]]

\* pixelsToCm, in tenths of a cm; NaN for a missing scale.
pixelsToCm(widthPixels, pixelsPerCm) ==
    IF pixelsPerCm = None THEN [nan |-> TRUE, v |-> 0]
    ELSE [nan |-> FALSE, v |-> (widthPixels * 10) \div pixelsPerCm.v]

Positive(x) == ~x.nan /\ x.v > 0

\* Array.prototype.find on the region: the first element of the region,
\* or null.
FindRegion(list, region) ==
    IF \E i \in 1..Len(list) : list[i].region = region
    THEN list[CHOOSE i \in 1..Len(list) :
                 /\ list[i].region = region
                 /\ \A j \in 1..(i - 1) : list[j].region # region]
    ELSE None

\* Map.prototype.set: the entry of the key is replaced where it stands, a
\* new key is added at the end.
MapSet(map, entry) ==
    IF \E i \in 1..Len(map) : map[i].region = entry.region
    THEN [i \in 1..Len(map) |->
             IF map[i].region = entry.region THEN entry ELSE map[i]]
    ELSE Append(map, entry)

\* Step 4 of process(): the frontal and the sagittal width of every region
\* of frontWidths that sideWidths has too.
RECURSIVE PairWidths(_, _, _, _)
PairWidths(frontWidths, sideWidths, ppc, regionWidths) ==
    IF frontWidths = <<>> THEN regionWidths
    ELSE LET fw == Head(frontWidths)
             sw == FindRegion(sideWidths, fw.region)
         IN  PairWidths(Tail(frontWidths), sideWidths, ppc,
                 IF sw # None
                 THEN MapSet(regionWidths,
                          [region |-> fw.region,
                           frontal_cm |-> pixelsToCm(fw.width_pixels, ppc),
                           sagittal_cm |-> pixelsToCm(sw.width_pixels, ppc)])
                 ELSE regionWidths)

\* calculateAllCircumferences: a CircumferenceResult for every entry whose
\* widths are both positive, in the order of the map.
calculateAllCircumferences_AnyNumber(regionWidths) ==
    LET kept == SelectSeq(regionWidths,
                    LAMBDA w : ~w.frontal_cm.nan /\ ~w.sagittal_cm.nan)
    IN  [i \in 1..Len(kept) |->
            calculateCircumference(kept[i].region, 10 * kept[i].frontal_cm.v,
                                   10 * kept[i].sagittal_cm.v)]

calculateAllCircumferences(regionWidths) ==
    LET kept == SelectSeq(regionWidths,
                    LAMBDA w : Positive(w.frontal_cm) /\ Positive(w.sagittal_cm))
    IN  [i \in 1..Len(kept) |->
            calculateCircumference(kept[i].region, 10 * kept[i].frontal_cm.v,
                                   10 * kept[i].sagittal_cm.v)]

\* Steps 3 to 7 of process(): the regions measured on both masks with
\* positive widths get a circumference; the composition is measured from
\* waist, neck and hips, or else the BMI fallback.
LocalResult(frontMask, sideMask, ppc) ==
    LET frontWidths == analyzeSilhouette(frontMask)
        sideWidths == analyzeSilhouette(sideMask)
        regionWidths == PairWidths(frontWidths, sideWidths, ppc, <<>>)
        circumferences == calculateAllCircumferences(regionWidths)
    IN  [circumferences |-> circumferences,
         composition |-> IF /\ FindRegion(circumferences, "waist") # None
                            /\ FindRegion(circumferences, "neck") # None
                            /\ FindRegion(circumferences, "hips") # None
                         THEN "measured" ELSE "fallback"]

localOthers ==
    <<flowVars, calls, formVars, camVars, pending, onCaptureCalls,
      routeVars, poseVars>>

\* process() up to its first await: segment(frontImage).
LocalProcess ==
    /\ ~isProcessing
    /\ ret = None
    /\ isProcessing' = TRUE
    /\ progress' = 10
    /\ processingError' = NULL
    /\ UNCHANGED <<args, ret, localOthers>>

\* The catch branch: setError(message), process() returns null.
LocalFailed(message) ==
    /\ processingError' = message
    /\ isProcessing' = FALSE
    /\ ret' = [value |-> None]
    /\ UNCHANGED progress

\* segment(frontImage) resolved; then the await of segment(sideImage).
FrontSegmented ==
    /\ isProcessing
    /\ progress = 10
    /\ IF args.frontMask = None
       THEN LocalFailed("Front body segmentation failed")
       ELSE /\ progress' = 30
            /\ UNCHANGED <<isProcessing, processingError, ret>>
    /\ UNCHANGED <<args, localOthers>>

\* segment(sideImage) resolved; steps 3 to 7 run and process() returns.
SideSegmented ==
    /\ isProcessing
    /\ progress = 30
    /\ IF args.sideMask = None
       THEN LocalFailed("Side body segmentation failed")
       ELSE /\ progress' = 100
            /\ isProcessing' = FALSE
            /\ ret' = [value |-> LocalResult(args.frontMask, args.sideMask,
                                             args.pixels_per_cm)]
            /\ UNCHANGED processingError
    /\ UNCHANGED <<args, localOthers>>

LocalInit ==
    /\ AppInit
    /\ args \in LocalInputs
    /\ ret = None

LocalNext == LocalProcess \/ FrontSegmented \/ SideSegmented

LocalSpec == LocalInit /\ [][LocalNext]_vars

\* The body mask is unavailable or empty.
SegmentationFailure(mask) == mask = None \/ mask = EmptyMask

\* C16: when the mask of the front or of the side image is unavailable or
\* empty, process() returns no ScanResult and records an error.
C16_SegmentationFailureAborts ==
    (/\ ret # None
     /\ SegmentationFailure(args.frontMask) \/ SegmentationFailure(args.sideMask))
        => (ret.value = None /\ processingError # NULL)

\* ------------------------------------------------- lib/scan/calibrator.ts
\* A landmark's y, in tenths of the image height (y in [0,1]).
Ys == {0, 1, 5, 9, 10}

\* A landmark: absent, or at a height y.
Landmarks == {None} \cup [y : Ys]

ImageHeights == {1080, 1920}

\* Valid heights (cm).
HeightsCm == {100, 170, 250}

CalibrateInputs ==
    [nose : Landmarks, lAnkle : Landmarks, rAnkle : Landmarks,
     imageHeight : ImageHeights, heightCm : HeightsCm]

MissingLandmarks == "Cannot calibrate: missing nose or ankle keypoints"

\* Mutant: the right ankle is not checked, and reading its y throws.
calibrateFromHeight_RightAnkleUnchecked(nose, lAnkle, rAnkle, imageHeight, knownHeightCm) ==
    IF nose = None \/ lAnkle = None
    THEN [error |-> MissingLandmarks]
    ELSE IF rAnkle = None
    THEN [error |-> "TypeError: Cannot read properties of undefined"]
    ELSE [error |-> NULL,
          height_cm |-> knownHeightCm,
          pixels_per_cm |->
              [num |-> (5 * (lAnkle.y + rAnkle.y) - 9 * nose.y) * imageHeight,
               den |-> 95 * knownHeightCm]]

\* calibrateFromHeight: the thrown error, or the CalibrationData with
\* pixels_per_cm as the exact fraction pixelHeight / effectiveHeightCm:
\* headTopY = 0.9 * nose.y * imageHeight, ankleY = (lAnkle.y + rAnkle.y) / 2
\* * imageHeight, effectiveHeightCm = 0.95 * heightCm.
calibrateFromHeight(nose, lAnkle, rAnkle, imageHeight, knownHeightCm) ==
    IF nose = None \/ lAnkle = None \/ rAnkle = None
    THEN [error |-> MissingLandmarks]
    ELSE [error |-> NULL,
          height_cm |-> knownHeightCm,
          pixels_per_cm |->
              [num |-> (5 * (lAnkle.y + rAnkle.y) - 9 * nose.y) * imageHeight,
               den |-> 95 * knownHeightCm]]

appVars ==
    <<flowVars, procVars, formVars, camVars, pending, onCaptureCalls,
      routeVars, poseVars>>

\* One call of calibrateFromHeight on the arguments drawn.
Calibrate ==
    /\ ret = None
    /\ ret' = calibrateFromHeight(args.nose, args.lAnkle, args.rAnkle,
                                  args.imageHeight, args.heightCm)
    /\ UNCHANGED <<args, appVars>>

CalibrateInit ==
    /\ AppInit
    /\ args \in CalibrateInputs
    /\ ret = None

CalibrateNext == Calibrate

CalibrateSpec == CalibrateInit /\ [][CalibrateNext]_vars

\* C17: every CalibrationData calibrateFromHeight returns has
\* pixels_per_cm > 0.
C17_ScalePositive ==
    (ret # None /\ ret.error = NULL)
        => (ret.pixels_per_cm.num > 0 /\ ret.pixels_per_cm.den > 0)

LandmarkAbsent ==
    args.nose = None \/ args.lAnkle = None \/ args.rAnkle = None

\* C18: calibrateFromHeight fails exactly when the nose or an ankle is
\* absent, then with the missing-landmarks error, and returns a
\* CalibrationData in every other case.
C18_FailsExactlyOnMissingLandmarks ==
    ret # None =>
        /\ ret.error # NULL <=> LandmarkAbsent
        /\ ret.error \in {NULL, MissingLandmarks}
        /\ ret.error = NULL => ret.height_cm = args.heightCm

\* C18 witness: a call that failed with only the right ankle absent.
C18_Witness ==
    /\ ret # None
    /\ ret.error = MissingLandmarks
    /\ args.nose # None /\ args.lAnkle # None /\ args.rAnkle = None

\* pixels_per_cm values, in tenths of a pixel per cm, run from -1.0 up to
\* this.
MaxScaleTenths == 260

\* pixels_per_cm of a CalibrationData: undefined (None) or a number.
ScaleInputs ==
    {None} \cup [tenths : (0 - 10)..MaxScaleTenths]

TooFar == "Scale too small - person may be too far from camera"

TooClose == "Scale too large - person may be too close to camera"

\* Mutant: a scale of exactly 20 is too close.
validateCalibration_CloseAt20(pixels_per_cm) ==
    IF pixels_per_cm # None /\ pixels_per_cm.tenths < 10
    THEN [valid |-> FALSE, reason |-> TooFar]
    ELSE IF pixels_per_cm # None /\ pixels_per_cm.tenths >= 200
    THEN [valid |-> FALSE, reason |-> TooClose]
    ELSE [valid |-> TRUE, reason |-> NULL]

\* validateCalibration; a comparison with undefined is false.
validateCalibration(pixels_per_cm) ==
    IF pixels_per_cm # None /\ pixels_per_cm.tenths < 10
    THEN [valid |-> FALSE, reason |-> TooFar]
    ELSE IF pixels_per_cm # None /\ pixels_per_cm.tenths > 200
    THEN [valid |-> FALSE, reason |-> TooClose]
    ELSE [valid |-> TRUE, reason |-> NULL]

\* calibrationScore of the confidence scorer, in hundredths.
calibrationScore(pixels_per_cm) ==
    IF pixels_per_cm = None THEN 50
    ELSE IF pixels_per_cm.tenths >= 30 /\ pixels_per_cm.tenths <= 100 THEN 100
    ELSE IF pixels_per_cm.tenths >= 20 /\ pixels_per_cm.tenths <= 150 THEN 80
    ELSE 50

\* One call of validateCalibration on the data drawn.
Validate ==
    /\ ret = None
    /\ ret' = validateCalibration(args.pixels_per_cm)
    /\ UNCHANGED <<args, appVars>>

ValidateInit ==
    /\ AppInit
    /\ args \in [pixels_per_cm : ScaleInputs]
    /\ ret = None

ValidateNext == Validate

ValidateSpec == ValidateInit /\ [][ValidateNext]_vars

\* C19: validateCalibration flags too far below 1, too close above 20 and
\* returns valid otherwise; so among the scales it accepts exactly those
\* with 1 <= pixels_per_cm <= 20, and with them every scale of the
\* scorer's ideal range [3, 10].
C19_ValidateCalibrationRange ==
    ret # None =>
        LET ppc == args.pixels_per_cm
            number == ppc # None
        IN  /\ (number /\ ppc.tenths < 10)
                => ret = [valid |-> FALSE, reason |-> TooFar]
            /\ (number /\ ppc.tenths > 200)
                => ret = [valid |-> FALSE, reason |-> TooClose]
            /\ ~(number /\ (ppc.tenths < 10 \/ ppc.tenths > 200))
                => ret = [valid |-> TRUE, reason |-> NULL]
            /\ number => (ret.valid <=> (10 <= ppc.tenths /\ ppc.tenths <= 200))
            /\ (number /\ calibrationScore(ppc) = 100) => ret.valid

\* C19 witness: the scale 20 was validated and accepted.
C19_Witness ==
    /\ ret # None
    /\ args.pixels_per_cm # None
    /\ args.pixels_per_cm.tenths = 200
    /\ ret.valid

\* ------------------------------------------- lib/scan/confidence-scorer.ts
MIN_VISIBILITY_TENTHS == 5

\* Visibilities of keypoints, in tenths.
Visibilities == {3, 5, 9}

\* Keypoint lists, as the visibilities of their keypoints.
FrontKeypointLists ==
    {<<>>} \cup {<<a>> : a \in Visibilities}
        \cup {<<a, b>> : a \in Visibilities, b \in Visibilities}

SideKeypointLists == {<<>>} \cup {<<a>> : a \in Visibilities}

\* Scales in each band of calibrationScore, and a missing scale.
ScoreScales ==
    {None} \cup [tenths : {10, 20, 30, 100, 150, 160}]

\* The regions measured, and the confidences of a circumference, in
\* hundredths.
ScoreRegions == {"waist", "chest"}

Confidences == {20, 100}

\* The circumferences: the confidence of each measured region.
CircumferenceLists ==
    UNION {[rs -> Confidences] : rs \in SUBSET ScoreRegions}

ScoreInputs ==
    [frontKeypoints : FrontKeypointLists, sideKeypoints : SideKeypointLists,
     pixels_per_cm : ScoreScales, circumferences : CircumferenceLists]

\* Every score below is a whole multiple of 1 / ScoreUnit for the inputs
\* drawn (lists of at most 2 keypoints and regions, 14 expected regions,
\* hundredths).
ScoreUnit == 5600

expectedRegions == 14

\* keypointVisibilityScore, in 1 / ScoreUnit.
keypointVisibilityScore(kps) ==
    IF Len(kps) = 0 THEN 0
    ELSE (Cardinality({i \in 1..Len(kps) : kps[i] >= MIN_VISIBILITY_TENTHS})
            * ScoreUnit) \div Len(kps)

RECURSIVE SumConfidence(_)
SumConfidence(c) ==
    IF DOMAIN c = {} THEN 0
    ELSE LET r == CHOOSE x \in DOMAIN c : TRUE
         IN  c[r] + SumConfidence([x \in DOMAIN c \ {r} |-> c[x]])

\* scoreScanConfidence, in hundredths: the weighted average of the scores
\* (weights 0.2, 0.2, 0.15, 0.2 and, with a circumference, 0.25), rounded.
scoreScanConfidence(circumferences, frontKps, sideKps, pixels_per_cm) ==
    LET n == Cardinality(DOMAIN circumferences)
        coverage ==
            IF n >= expectedRegions THEN ScoreUnit
            ELSE (n * ScoreUnit) \div expectedRegions
        avgConf ==
            IF n = 0 THEN 0
            ELSE (SumConfidence(circumferences) * (ScoreUnit \div 100)) \div n
        weighted ==
            20 * keypointVisibilityScore(frontKps)
            + 20 * keypointVisibilityScore(sideKps)
            + 15 * calibrationScore(pixels_per_cm) * (ScoreUnit \div 100)
            + 20 * coverage
            + (IF n > 0 THEN 25 * avgConf ELSE 0)
        totalWeight == IF n > 0 THEN 100 ELSE 75
    IN  (200 * weighted + ScoreUnit * totalWeight)
            \div (2 * ScoreUnit * totalWeight)

Score(a) ==
    scoreScanConfidence(a.circumferences, a.frontKeypoints, a.sideKeypoints,
                        a.pixels_per_cm)

\* The scan is scored again with one input degraded, all else fixed.
Rescore(a) ==
    /\ args' = a
    /\ ret' = [score |-> Score(a)]
    /\ UNCHANGED appVars

\* A keypoint of the front or of the side list gets a lower visibility.
LowerVisibility(list, i, v) ==
    /\ i \in 1..Len(args[list])
    /\ v < args[list][i]
    /\ Rescore([args EXCEPT ![list][i] = v])

\* The calibration scale moves to a worse band of calibrationScore.
WorsenCalibration(s) ==
    /\ calibrationScore(s) < calibrationScore(args.pixels_per_cm)
    /\ Rescore([args EXCEPT !.pixels_per_cm = s])

\* A measured region is removed.
RemoveRegion(r) ==
    /\ r \in DOMAIN args.circumferences
    /\ Rescore([args EXCEPT !.circumferences =
                   [x \in DOMAIN args.circumferences \ {r} |->
                       args.circumferences[x]]])

\* One region's confidence is lowered.
LowerRegionConfidence(r, c) ==
    /\ r \in DOMAIN args.circumferences
    /\ c < args.circumferences[r]
    /\ Rescore([args EXCEPT !.circumferences[r] = c])

ScoreInit ==
    /\ AppInit
    /\ args \in ScoreInputs
    /\ ret = [score |-> Score(args)]

ScoreNext ==
    \/ \E list \in {"frontKeypoints", "sideKeypoints"}, i \in 1..2,
          v \in Visibilities : LowerVisibility(list, i, v)
    \/ \E s \in ScoreScales : WorsenCalibration(s)
    \/ \E r \in ScoreRegions : RemoveRegion(r)
    \/ \E r \in ScoreRegions, c \in Confidences : LowerRegionConfidence(r, c)

ScoreSpec == ScoreInit /\ [][ScoreNext]_vars

\* C20: degrading one input of scoreScanConfidence, all else fixed, never
\* increases the score.
C20_ScoreMonotonic == [][ret'.score <= ret.score]_vars

\* ---------------------------------------------- body-composition.ts
\* A JavaScript number: NaN, or a finite value v in the unit of its use.
Num(n) == [nan |-> FALSE, v |-> n]

NaN == [nan |-> TRUE, v |-> 0]

\* Circumferences in cm; NaN is what calculateCircumference returns for
\* widths that are not finite.
WaistInputs == {Num(60), Num(80), NaN}

NeckInputs == {Num(40), Num(90), NaN}

HipInputs == {Num(90), NaN}

\* Height (cm) and weight (kg) of the calibration, with a whole BMI.
Bodies ==
    {[height_cm |-> 200, weight_kg |-> 80],
     [height_cm |-> 200, weight_kg |-> 240],
     [height_cm |-> 100, weight_kg |-> 30]}

CompositionAges == {13, 30, 120}

CompositionInputs ==
    [sex : {"male", "female"}, age : CompositionAges, body : Bodies,
     waist_cm : WaistInputs, neck_cm : NeckInputs, hip_cm : HipInputs]

\* Math.log10 in thousandths, on the arguments the inputs above produce.
log10 ==
    [x \in {20, 40, 60, 80, 100, 110, 130, 200} |->
        CASE x = 20 -> 1301 [] x = 40 -> 1602 [] x = 60 -> 1778
          [] x = 80 -> 1903 [] x = 100 -> 2000 [] x = 110 -> 2041
          [] x = 130 -> 2114 [] x = 200 -> 2301]

\* navyBodyFat, in millionths of a percent. A comparison with NaN is false,
\* so a NaN difference reaches the logarithm and yields NaN.
navyBodyFat(sx, waist_cm, neck_cm, hip_cm, height_cm) ==
    IF sx = "male"
    THEN IF waist_cm.nan \/ neck_cm.nan THEN NaN
         ELSE LET diff == waist_cm.v - neck_cm.v
              IN  IF diff <= 0 THEN Num(5000000)
                  ELSE Num(86010 * log10[diff] - 70041 * log10[height_cm]
                           + 36760000)
    ELSE IF waist_cm.nan \/ neck_cm.nan \/ hip_cm.nan THEN NaN
         ELSE LET sum == waist_cm.v + hip_cm.v - neck_cm.v
              IN  IF sum <= 0 THEN Num(10000000)
                  ELSE Num(163205 * log10[sum] - 97684 * log10[height_cm]
                           - 78387000)

\* cunbaeBodyFat, in millionths of a percent.
cunbaeBodyFat(bmi, a, sx) ==
    LET s == IF sx = "female" THEN 1 ELSE 0
    IN  Num(0 - 44988000 + 503000 * a + 10689000 * s + 3172000 * bmi
            - 26000 * bmi * bmi + 181000 * bmi * s - 20000 * bmi * a
            - 5000 * bmi * bmi * s + 210 * bmi * bmi * a)

\* calculateBMI; the division is exact on Bodies.
calculateBMI(height_cm, weight_kg) ==
    (10000 * weight_kg) \div (height_cm * height_cm)

\* Math.max(3, Math.min(60, x)) on millionths; NaN stays NaN.
ClampEstimate(x) ==
    IF x.nan THEN NaN ELSE Num(Max(3000000, Min(60000000, x.v)))

\* Math.round(x * 10) / 10, in tenths, of x given in units of 1/perTenth
\* tenths; halves round up.
RoundTenths(x, perTenth) ==
    IF x.nan THEN NaN ELSE Num((2 * x.v + perTenth) \div (2 * perTenth))

\* calculateBodyComposition: the three estimates (tenths of a percent), bmi
\* (tenths) and waist_hip_ratio (hundredths). The masses are left out.
calculateBodyComposition(sx, a, height_cm, weight_kg, waist_cm, neck_cm, hip_cm) ==
    LET bmi == calculateBMI(height_cm, weight_kg)
        navy == navyBodyFat(sx, waist_cm, neck_cm, hip_cm, height_cm)
        cunbae == cunbaeBodyFat(bmi, a, sx)
        navyClamped == ClampEstimate(navy)
        cunbaeClamped == ClampEstimate(cunbae)
        bodyFatPct == IF navyClamped.nan \/ cunbaeClamped.nan THEN NaN
                      ELSE Num(6 * navyClamped.v + 4 * cunbaeClamped.v)
    IN  [body_fat_pct |-> RoundTenths(bodyFatPct, 1000000),
         body_fat_navy |-> RoundTenths(navyClamped, 100000),
         body_fat_cunbae |-> RoundTenths(cunbaeClamped, 100000),
         bmi |-> Num(10 * bmi),
         waist_hip_ratio |->
             IF waist_cm.nan \/ hip_cm.nan THEN NaN
             ELSE Num((200 * waist_cm.v + hip_cm.v) \div (2 * hip_cm.v))]

\* One call of calculateBodyComposition on the arguments drawn.
Compose ==
    /\ ret = None
    /\ ret' = calculateBodyComposition(args.sex, args.age,
                                       args.body.height_cm,
                                       args.body.weight_kg, args.waist_cm,
                                       args.neck_cm, args.hip_cm)
    /\ UNCHANGED <<args, appVars>>

ComposeInit ==
    /\ AppInit
    /\ args \in CompositionInputs
    /\ ret = None

ComposeNext == Compose

ComposeSpec == ComposeInit /\ [][ComposeNext]_vars

\* a <= b on numbers: false when either is NaN.
Leq(a, b) == ~a.nan /\ ~b.nan /\ a.v <= b.v

\* C21: body_fat_pct of every BodyCompositionResult lies between
\* body_fat_navy and body_fat_cunbae, and so within [3, 60].
C21_EnsembleBetweenEstimates ==
    ret # None =>
        /\ \/ Leq(ret.body_fat_navy, ret.body_fat_pct)
           \/ Leq(ret.body_fat_cunbae, ret.body_fat_pct)
        /\ \/ Leq(ret.body_fat_pct, ret.body_fat_navy)
           \/ Leq(ret.body_fat_pct, ret.body_fat_cunbae)
        /\ Leq(Num(30), ret.body_fat_pct)
        /\ Leq(ret.body_fat_pct, Num(600))

\* ------------------------------- calculateCircumference, region fixed
\* calculateCircumference on a, kept with the result of the call before.
Measure(a, before) ==
    [before |-> before,
     value |-> calculateCircumference(a.region, a.frontal_cm, a.sagittal_cm)]

\* The same region measured again with a larger frontal width.
WidenFrontal(w) ==
    /\ w > args.frontal_cm
    /\ args' = [args EXCEPT !.frontal_cm = w]
    /\ ret' = Measure(args', ret.value)
    /\ UNCHANGED appVars

\* The same region measured again with a larger sagittal width.
WidenSagittal(w) ==
    /\ w > args.sagittal_cm
    /\ args' = [args EXCEPT !.sagittal_cm = w]
    /\ ret' = Measure(args', ret.value)
    /\ UNCHANGED appVars

CircumferenceInit ==
    /\ AppInit
    /\ args \in CircumferenceInputs
    /\ ret = Measure(args, None)

CircumferenceNext ==
    \/ \E w \in WidthsCm : WidenFrontal(w)
    \/ \E w \in WidthsCm : WidenSagittal(w)

CircumferenceSpec == CircumferenceInit /\ [][CircumferenceNext]_vars

\* C22: with the region fixed, a larger frontal or sagittal width yields a
\* strictly larger circumference_cm.
C22_CircumferenceStrictlyIncreasing ==
    ret.before # None =>
        ret.value.circumference_cm > ret.before.circumference_cm

\* C22, as the code has it: with the region fixed, a larger frontal or
\* sagittal width never yields a smaller circumference_cm (the value is
\* rounded to 0.1 cm, so it may stay the same).
C22_CircumferenceNonDecreasing ==
    ret.before # None =>
        ret.value.circumference_cm >= ret.before.circumference_cm

\* A width grew and the rounded circumference stayed the same.
C22_Witness ==
    /\ ret.before # None
    /\ ret.value.circumference_cm = ret.before.circumference_cm

\* The view of the mask measured a positive width for the region: its row
\* has a width and the width in cm is above zero.
MeasuredPositive(mask, region, ppc) ==
    /\ mask[region] # NoPixel
    /\ mask[region] >= 5
    /\ ppc # None
    /\ ppc.v > 0

\* C23: every CircumferenceResult of a ScanResult belongs to a region for
\* which the front and the side view both measured a positive width, and
\* no region appears twice.
C23_CircumferencesFromBothViews ==
    (ret # None /\ ret.value # None) =>
        LET c == ret.value.circumferences
        IN  /\ \A i \in 1..Len(c) :
                 /\ MeasuredPositive(args.frontMask, c[i].region,
                                     args.pixels_per_cm)
                 /\ MeasuredPositive(args.sideMask, c[i].region,
                                     args.pixels_per_cm)
            /\ \A i, j \in 1..Len(c) : c[i].region = c[j].region => i = j

\* A ScanResult with circumferences, a region seen in one view only and a
\* region seen in neither left out.
C23_Witness ==
    /\ ret # None
    /\ ret.value # None
    /\ Len(ret.value.circumferences) = 1
    /\ \E r \in Regions :
          /\ args.frontMask[r] >= 5
          /\ args.sideMask[r] < 5

\* ------------------------------------------- silhouette-analyzer.ts: scanRow
\* Size of the masks scanned pixel by pixel.
MaskWidth == 6

MaskHeight == 2

\* A binary mask as segment() builds it: a Uint8Array of 0 and 255, row
\* after row (index 0 of the array is element 1 here).
PixelMasks == [1..(MaskWidth * MaskHeight) -> {0, 255}]

\* The rows analyzeSilhouette asks for: Math.round of a landmark position,
\* which may lie above or below the mask.
ScanRows == (0 - 1)..MaskHeight

ScanInputs == [mask : PixelMasks, y : ScanRows]

\* mask[i] of the typed array: undefined past its end, and undefined > 0
\* is false.
PixelSet(mask, i) == i < Len(mask) /\ mask[i + 1] > 0

\* scanRow: the loop keeps the first set x as leftEdge and the last as
\* rightEdge.
scanRow_NoNoiseFloor(mask, width, y) ==
    IF y < 0 \/ y * width >= Len(mask) THEN None
    ELSE LET rowStart == y * width
             xs == {x \in 0..(width - 1) : PixelSet(mask, rowStart + x)}
         IN  IF xs = {} THEN None
             ELSE LET leftEdge == CHOOSE x \in xs : \A z \in xs : x <= z
                      rightEdge == CHOOSE x \in xs : \A z \in xs : x >= z
                      widthPx == rightEdge - leftEdge
                  IN  [y_position |-> y, left_edge |-> leftEdge,
                       right_edge |-> rightEdge, width_pixels |-> widthPx]

scanRow(mask, width, y) ==
    IF y < 0 \/ y * width >= Len(mask) THEN None
    ELSE LET rowStart == y * width
             xs == {x \in 0..(width - 1) : PixelSet(mask, rowStart + x)}
         IN  IF xs = {} THEN None
             ELSE LET leftEdge == CHOOSE x \in xs : \A z \in xs : x <= z
                      rightEdge == CHOOSE x \in xs : \A z \in xs : x >= z
                      widthPx == rightEdge - leftEdge
                  IN  IF widthPx < 5 THEN None
                      ELSE [y_position |-> y, left_edge |-> leftEdge,
                            right_edge |-> rightEdge,
                            width_pixels |-> widthPx]

\* analyzeSilhouette on one region whose row is args.y: the width pushed to
\* the results, or nothing.
ScanRow ==
    /\ ret = None
    /\ ret' = [value |-> scanRow(args.mask, MaskWidth, args.y)]
    /\ UNCHANGED <<args, appVars>>

ScanInit ==
    /\ AppInit
    /\ args \in ScanInputs
    /\ ret = None

ScanNext == ScanRow

ScanSpec == ScanInit /\ [][ScanNext]_vars

\* The columns of row y of the mask that are set; none outside the mask.
SetColumns(mask, y) ==
    IF y \in 0..(MaskHeight - 1)
    THEN {x \in 0..(MaskWidth - 1) : mask[y * MaskWidth + x + 1] # 0}
    ELSE {}

\* C24: the edges reported for a row are its leftmost and rightmost set
\* pixels and width_pixels is their distance, at least 5; a row outside
\* the mask, without a set pixel, or narrower than 5 yields nothing.
C24_RowScan ==
    ret # None =>
        LET cols == SetColumns(args.mask, args.y)
            w == ret.value
        IN  IF w = None
            THEN \A a, b \in cols : b - a < 5
            ELSE /\ w.left_edge \in cols
                 /\ w.right_edge \in cols
                 /\ \A x \in cols : w.left_edge <= x /\ x <= w.right_edge
                 /\ w.width_pixels = w.right_edge - w.left_edge
                 /\ w.width_pixels >= 5
                 /\ w.y_position = args.y

\* A width was reported for the second row of a mask whose first row is
\* empty.
C24_Witness ==
    /\ ret # None
    /\ ret.value # None
    /\ args.y = 1
    /\ SetColumns(args.mask, 0) = {}

\* C25: in every ScanFlow state the inputs of the current step are present:
\* the calibration from front_capture on, the front image from
\* front_review on, the side image from side_review on and the result in
\* results; handleProcess never takes its 'Missing scan data' branch.
C25_StepInputsPresent ==
    /\ step \in {"front_capture", "front_review", "side_capture",
                 "side_review", "processing", "results"}
          => calibration # None
    /\ step \in {"front_review", "side_capture", "side_review", "processing",
                 "results"}
          => frontImage # NULL
    /\ step \in {"side_review", "processing", "results"} => sideImage # NULL
    /\ step = "results" => result # NULL
    /\ error # "Missing scan data"

\* The results of a processed scan are shown.
C25_Witness ==
    /\ step = "results"
    /\ calibration # None
    /\ frontImage # NULL
    /\ sideImage # NULL
    /\ result # NULL

\* The buttons that call setStep alone: start, back, retake and advance.
Navigation ==
    \/ StartScan
    \/ CalibrationBack
    \/ FrontCaptureBack
    \/ FrontRetake
    \/ TakeSidePhoto
    \/ SideCaptureBack
    \/ SideRetake

\* C26: start, back, retake and advance change only the step of the
\* ScanFlow state; a front capture changes only frontImage, frontKeypoints
\* and step, a side capture only sideImage, sideKeypoints and step.
C26_FrameOfFlowHandlers ==
    [][/\ Navigation =>
            UNCHANGED <<calibration, frontImage, frontKeypoints, sideImage,
                        sideKeypoints, result, error>>
       /\ \A p \in PendingCaptures :
            CaptureDelivered(p) =>
                IF p.mode = "front"
                THEN UNCHANGED <<calibration, sideImage, sideKeypoints,
                                 result, error>>
                ELSE UNCHANGED <<calibration, frontImage, frontKeypoints,
                                 result, error>>]_vars

\* The side photo is being retaken: both photos are still stored.
C26_Witness ==
    /\ step = "side_capture"
    /\ frontImage # NULL
    /\ sideImage # NULL

\* C27: a capture callback takes effect only in its own capture step: the
\* front callback runs only while the step is front_capture and the side
\* callback only while it is side_capture, however late the snapshot
\* completes.
C27_CaptureOnlyInOwnStep ==
    [][\A p \in PendingCaptures :
          CaptureDelivered(p) =>
              step = (IF p.mode = "front" THEN "front_capture"
                      ELSE "side_capture")]_vars

\* -------------------------------------------------- usePoseDetection
\* startDetection() calls that may await loadModel() at once, and animation
\* frames that may be requested at once.
MaxLoads == 2

MaxFrames == 2

\* What the hook's actions leave alone.
poseOthers ==
    <<flowVars, procVars, formVars, inst, camPending, isReady, cameraError,
      poseState, prevKeypointsRef, stableFrames, isValid, capturedRef,
      pending, onCaptureCalls, routeVars, libVars>>

\* A state setter of the hook: without effect once the component is
\* unmounted.
HookMounted == hook \in {"idle", "started", "stopped"}

\* A CameraCapture is mounted with its usePoseDetection.
HookMount ==
    /\ hook = "none"
    /\ hook' = "idle"
    /\ UNCHANGED <<landmarkerRef, loads, frames, rafLive, isDetecting,
                   keypoints, poseError, poseOthers>>

\* requestAnimationFrame(detect): rafRef names the new frame.
RequestFrame ==
    /\ frames' = frames + 1
    /\ rafLive' = TRUE

\* cancelAnimationFrame(rafRef.current): the frame rafRef names, if it is
\* still requested.
CancelFrame ==
    /\ frames' = IF rafLive THEN frames - 1 ELSE frames
    /\ rafLive' = FALSE

\* The effect on isReady: startDetection(video) up to its await; with the
\* landmarker loaded, loadModel() returns at once and the loop is
\* scheduled.
startDetection ==
    /\ hook = "idle"
    /\ hook' = "started"
    /\ IF landmarkerRef
       THEN /\ frames < MaxFrames
            /\ isDetecting' = TRUE
            /\ RequestFrame
            /\ UNCHANGED loads
       ELSE /\ loads < MaxLoads
            /\ loads' = loads + 1
            /\ UNCHANGED <<frames, rafLive, isDetecting>>
    /\ UNCHANGED <<landmarkerRef, keypoints, poseError, poseOthers>>

\* startDetection() after its await, whatever happened meanwhile:
\* setIsDetecting(true) and requestAnimationFrame(detect).
DetectionResumes ==
    /\ frames < MaxFrames
    /\ loads > 0
    /\ loads' = loads - 1
    /\ isDetecting' = IF HookMounted THEN TRUE ELSE isDetecting
    /\ RequestFrame

\* loadModel() created the landmarker.
ModelLoaded ==
    /\ DetectionResumes
    /\ landmarkerRef' = TRUE
    /\ UNCHANGED <<hook, keypoints, poseError, poseOthers>>

\* loadModel() failed.
ModelFailed ==
    /\ DetectionResumes
    /\ poseError' = IF HookMounted THEN "Failed to load pose detection model"
                    ELSE poseError
    /\ UNCHANGED <<hook, landmarkerRef, keypoints, poseOthers>>

\* detect(): a requested frame runs; without a landmarker or with the
\* video not ready it only requests the next frame, else it stores the
\* detector result f (None: no pose) first.
detect(ready, f) ==
    /\ frames > 0
    /\ keypoints' = IF landmarkerRef /\ ready /\ HookMounted THEN f
                    ELSE keypoints
    /\ rafLive' = TRUE
    /\ UNCHANGED <<hook, landmarkerRef, loads, frames, isDetecting, poseError,
                   poseOthers>>

\* stopDetection().
stopDetection ==
    /\ isDetecting' = FALSE
    /\ CancelFrame
    /\ keypoints' = None

\* handleCapture after its await: stopDetection().
CaptureStops ==
    /\ hook = "started"
    /\ keypoints # None
    /\ hook' = "stopped"
    /\ stopDetection
    /\ UNCHANGED <<landmarkerRef, loads, poseError, poseOthers>>

\* The cleanup of the effect on isReady (the camera stopped).
EffectCleanup ==
    /\ hook \in {"started", "stopped"}
    /\ hook' = "idle"
    /\ stopDetection
    /\ UNCHANGED <<landmarkerRef, loads, poseError, poseOthers>>

\* The capture step is left: the cleanups of the effect on isReady
\* (stopDetection()) and of the hook (the frame is cancelled, the
\* landmarker closed).
HookUnmount ==
    /\ HookMounted
    /\ hook' = "unmounted"
    /\ stopDetection
    /\ landmarkerRef' = FALSE
    /\ UNCHANGED <<loads, poseError, poseOthers>>

PoseInit ==
    /\ AppInit
    /\ args = None
    /\ ret = None

PoseNext ==
    \/ HookMount
    \/ startDetection
    \/ ModelLoaded
    \/ ModelFailed
    \/ \E ready \in BOOLEAN, f \in Frames \cup {None} : detect(ready, f)
    \/ CaptureStops
    \/ EffectCleanup
    \/ HookUnmount

PoseSpec == PoseInit /\ [][PoseNext]_vars

\* C28: after stopDetection() or the unmount of the capture step, with no
\* startDetection() since, no detection frame is requested and keypoints
\* are null.
C28_StoppedDetectionStaysStopped ==
    hook \in {"idle", "stopped", "unmounted"} =>
        (frames = 0 /\ keypoints = None)

\* ------------------------------ POST /api/scan/process, any HTTP client
\* The fields the handler reads from the form data.
RequestFields ==
    {"front_image", "side_image", "height_cm", "weight_kg", "age", "sex"}

\* A request: what auth.getUser() reports for it (a user, an error) and
\* the fields its form data carries with a non-empty value.
Requests ==
    [user : BOOLEAN, authError : BOOLEAN,
     fields : {RequestFields, {}} \cup {RequestFields \ {f} : f \in RequestFields}]

\* !(authError || !user)
Authenticated(r) == ~r.authError /\ r.user

\* !(!frontImage || !sideImage || !heightCm || !weightKg || !age || !sex)
AllFields(r) == \A f \in RequestFields : f \in r.fields

\* The request args reaches the handler.
RequestArrives ==
    /\ routePhase = "idle"
    /\ routePhase' = "auth"
    /\ UNCHANGED <<routeTimer, routeResponse, backendRequests,
                   backendOutcome, deadlinePassed, clientVars, libVars,
                   poseVars>>

RequestAuth == RouteAuth(Authenticated(args))

RequestForward == RouteForwardIf(AllFields(args))

RequestInit ==
    /\ AppInit
    /\ args \in Requests
    /\ ret = None

RequestNext ==
    \/ RequestArrives
    \/ RequestAuth
    \/ RequestForward
    \/ RouteThrows
    \/ TimerFires
    \/ BackendUnreachable
    \/ \E status \in BackendStatuses : BackendHeaders(status)
    \/ DeadlinePasses
    \/ BackendErrorBody
    \/ BackendBody

RequestSpec == RequestInit /\ [][RequestNext]_vars

\* The outer catch answered: createClient(), getUser(), formData() or
\* json() threw.
Threw ==
    routeResponse =
        [status |-> 500,
         error |-> "Internal server error during scan processing"]

MaxConcurrentCalls == 2

\* The capture still awaiting its blob when the side review opened: the
\* capture button of the side instance was pressed twice.
LateCapture == [inst |-> 2, mode |-> "side"]

\* A session in side_review with both captures taken and one more side
\* capture awaiting its blob.
ReprocessInit ==
    /\ step = "side_review"
    /\ calibration =
         [height_cm |-> Tenths(170), weight_kg |-> Tenths(70),
          age |-> Tenths(30), sex |-> "male"]
    /\ frontImage = "blob"
    /\ frontKeypoints = "keypoints"
    /\ sideImage = "blob"
    /\ sideKeypoints = "keypoints"
    /\ result = NULL
    /\ error = NULL
    /\ isProcessing = FALSE
    /\ progress = 0
    /\ processingError = NULL
    /\ calls = [c \in Calls |-> 0]
    /\ heightCm = <<>>
    /\ weightKg = <<>>
    /\ age = <<>>
    /\ sex = "male"
    /\ errors = {}
    /\ inst = 2
    /\ camPending = FALSE
    /\ isReady = FALSE
    /\ cameraError = NULL
    /\ poseState = "idle"
    /\ poseError = NULL
    /\ keypoints = None
    /\ prevKeypointsRef = None
    /\ stableFrames = 0
    /\ isValid = FALSE
    /\ capturedRef = FALSE
    /\ pending = [p \in PendingCaptures |-> IF p = LateCapture THEN 1 ELSE 0]
    /\ onCaptureCalls = [i \in 1..MaxInstances |-> IF i <= 2 THEN 1 ELSE 0]
    /\ RouteIdle
    /\ PoseIdle
    /\ args = None
    /\ ret = None

ReprocessNext ==
    \/ handleProcessUpTo(MaxConcurrentCalls)
    \/ \E c \in Calls : ProgressTick(c)
    \/ \E c \in Calls : ResponseOk(c)
    \/ \E c \in Calls, m \in ServerErrors : ResponseNotOk(c, m)
    \/ \E c \in Calls : FetchRejected(c)
    \/ \E c \in Calls : JsonRejected(c)
    \/ \E c \in Calls : ProcessSucceeded(c)
    \/ \E p \in PendingCaptures : CaptureDelivered(p)
    \/ \E p \in PendingCaptures : CaptureDropped(p)

ReprocessSpec == ReprocessInit /\ [][ReprocessNext]_vars

\* C30: a call of process() ends either with the result, error null and
\* progress 100, or with null, an error and progress below 100; either way
\* isProcessing is false and the call's interval is gone; and while a call
\* is in flight the progress never decreases.
C30_ProcessOutcomes ==
    [][/\ \A c \in Calls :
            ProcessSucceeded(c) =>
                /\ processingError' = NULL
                /\ progress' = 100
                /\ ~isProcessing'
                /\ calls'[c] = calls[c] - 1
       /\ \A c \in Calls :
            ProcessFailed(c, processingError') =>
                /\ processingError' # NULL
                /\ progress' < 100
                /\ ~isProcessing'
                /\ calls'[c] = calls[c] - 1
       /\ (\E c \in Calls : calls[c] > 0) => progress' >= progress]_vars

====
